---- MODULE Spec2Model ----
(***************************************************************************)
(* GlobeView (cmbruns/webglobeview): the camera state of the globe viewer  *)
(* and the event handlers that change it, as a state machine.              *)
(*                                                                         *)
(* Numbers.  JavaScript numbers are doubles.  Here                         *)
(*   - zoom and aspect_ratio are exact rationals <<numerator, denominator>>*)
(*     in lowest terms;                                                    *)
(*   - angles (centerLongitude, centerLatitude) and drag_scale are         *)
(*     fixed-point integers counting 1/Unit radian, every division         *)
(*     rounding down as the code's divisions round to a double;            *)
(*   - sines and cosines, and so the entries of rotation, are fixed-point  *)
(*     integers counting 1/TrigOne;                                        *)
(*   - view_height is [nan, v]: v counts 1/HeightUnit sphere radii;        *)
(*   - the floats of the shaders (screen_xy, xyz, t) are fixed-point        *)
(*     integers counting 1/Fix, their products of two counting 1/Fix^2;     *)
(*     lod is the integer part (floor) of the shader's lod.                 *)
(***************************************************************************)
EXTENDS Integers, Sequences, FiniteSets, TLC

VARIABLES
    gl,               \* "null" or "ctx": the WebGL2 context
    image,            \* "loading", "loaded" (onload ran), "error" (onload threw)
    texture,          \* TRUE once texImage2D/generateMipmap have run
    uniforms,         \* the uniform values the program object holds
    fragment,         \* the fragment the fragment shader last shaded, if any
    rafPending,       \* number of requested animation frames not yet run
    canvas,           \* <<canvas.width, canvas.height>>
    zoom,             \* half-screens per radian, a rational <<n, d>>
    projection,       \* EQUIRECTANGULAR, ORTHOGRAPHIC or PERSPECTIVE
    rotation,         \* 3x3 matrix as 9 entries, row by row as the code lists them
    centerLongitude,
    centerLatitude,
    aspect_ratio,     \* a rational <<n, d>>
    view_height,
    height_disabled,  \* the "disabled" attribute of the height_input element
    is_dragging,
    dragX,
    dragY,
    steps,            \* number of events handled so far (bounds the exploration)
    last              \* the event last dispatched and the return its handler took

vars == <<gl, image, texture, uniforms, fragment, rafPending, canvas, zoom, projection, rotation,
          centerLongitude, centerLatitude, aspect_ratio, view_height,
          height_disabled, is_dragging, dragX, dragY, steps, last>>

camera == <<zoom, projection, rotation, centerLongitude, centerLatitude,
            aspect_ratio, view_height>>

----------------------------------------------------------------------------
(* Bounds of the exploration *)

MaxEvents == 4
MaxZoomSteps == 3

\* pointer positions (screenX, screenY) the mouse and touch events carry
Points == { <<100, 100>>, <<130, 120>>, <<130, 160>>, <<170, 120>> }

\* sizes (width, height) of the canvas, as the page sets it and as displayed
Sizes == { <<500, 500>>, <<300, 150>>, <<30, 40>> }

\* scroll events as <<wheelDelta, detail>> (0 for a field the event lacks)
Wheels == { <<120, 0>>, <<-120, 0>>, <<0, -3>>, <<0, 3>>, <<0, 0>> }

\* numbers of touch points a touch event carries
TouchCounts == { 1, 2 }

\* what the height_input box can hold when its input event fires
HeightValues == { "8000", "-500", "", "abc" }

\* the same, for the frames whose fragments are shaded
ShadedHeightValues == HeightValues \cup { "400", "20000" }

\* sizes of the canvas of the frames whose fragments are shaded
ShadedSizes == Sizes \cup { <<1800, 1800>> }

----------------------------------------------------------------------------
(* Arithmetic *)

Unit == 10^6
TrigOne == 10^4
HeightUnit == 10^3
Fix == 10^3

Abs(a) == IF a < 0 THEN -a ELSE a
Min(a, b) == IF a < b THEN a ELSE b
Max(a, b) == IF a > b THEN a ELSE b

RECURSIVE Gcd(_, _)
Gcd(a, b) == IF b = 0 THEN a ELSE Gcd(b, a % b)

RECURSIVE Pow(_, _)
Pow(b, e) == IF e = 0 THEN 1 ELSE b * Pow(b, e - 1)

\* the integer part of a square root
RECURSIVE IsqrtIn(_, _, _)
IsqrtIn(n, lo, hi) ==
    IF lo = hi
    THEN lo
    ELSE LET mid == (lo + hi + 1) \div 2
         IN  IF mid * mid <= n
             THEN IsqrtIn(n, mid, hi)
             ELSE IsqrtIn(n, lo, mid - 1)

Isqrt(n) == IsqrtIn(n, 0, 46340)

\* the integer part (floor) of log2(n / d), for n, d > 0
RECURSIVE FloorLog2(_, _)
FloorLog2(n, d) ==
    IF n < d
    THEN FloorLog2(2 * n, d) - 1
    ELSE IF n < 2 * d
    THEN 0
    ELSE FloorLog2(n, 2 * d) + 1

\* a rational in lowest terms, the denominator positive
Rat(n, d) == LET g == Gcd(Abs(n), Abs(d)) IN <<n \div g, d \div g>>
RatMul(p, q) == Rat(p[1] * q[1], p[2] * q[2])
RatGt(p, q) == p[1] * q[2] > q[1] * p[2]

\* Math.PI and 0.5 * Math.PI, in 1/Unit radian
HalfPi == 1570796
Pi == 2 * HalfPi
TwoPi == 4 * HalfPi

\* sine and cosine of x in 0 .. HalfPi/100 (x counts 1/TrigOne radian), in 1/TrigOne
SinP(x) ==
    LET x2 == (x * x) \div TrigOne
        t4 == TrigOne - x2 \div 72
        t3 == TrigOne - ((x2 * t4) \div TrigOne) \div 42
        t2 == TrigOne - ((x2 * t3) \div TrigOne) \div 20
        t1 == TrigOne - ((x2 * t2) \div TrigOne) \div 6
    IN  (x * t1) \div TrigOne

CosP(x) ==
    LET x2 == (x * x) \div TrigOne
        t4 == TrigOne - x2 \div 56
        t3 == TrigOne - ((x2 * t4) \div TrigOne) \div 30
        t2 == TrigOne - ((x2 * t3) \div TrigOne) \div 12
    IN  TrigOne - ((x2 * t2) \div TrigOne) \div 2

\* Math.sin(a), Math.cos(a) for an angle a in 1/Unit radian
Sin(a) ==
    LET r == a % TwoPi
        q == r \div HalfPi
        x == (r % HalfPi) \div 100
    IN  CASE q = 0 -> SinP(x)
          [] q = 1 -> CosP(x)
          [] q = 2 -> -SinP(x)
          [] OTHER -> -CosP(x)

Cos(a) ==
    LET r == a % TwoPi
        q == r \div HalfPi
        x == (r % HalfPi) \div 100
    IN  CASE q = 0 -> CosP(x)
          [] q = 1 -> -SinP(x)
          [] q = 2 -> -CosP(x)
          [] OTHER -> SinP(x)

\* the product of two sines/cosines
TrigMul(a, b) == (a * b) \div TrigOne

----------------------------------------------------------------------------
(* Program constants *)

EQUIRECTANGULAR == 1
ORTHOGRAPHIC == 2
PERSPECTIVE == 3

radiusKm == 6371

factor == <<11, 10>>          \* 1.10

DragLimit == 30

\* factor^k as a rational, k of either sign
FactorPower(k) ==
    IF k >= 0
    THEN <<Pow(factor[1], k), Pow(factor[2], k)>>
    ELSE <<Pow(factor[2], -k), Pow(factor[1], -k)>>

----------------------------------------------------------------------------
(* The functions of the handlers *)

\* scrollZoom: Math.max(-1, Math.min(1, (e.wheelDelta || -e.detail)))
WheelDirection(w) == Max(-1, Min(1, IF w[1] # 0 THEN w[1] ELSE -w[2]))

\* (mutant) zooming out by 0.9 instead of 1/1.10
ZoomedOutByTenth(z, delta) ==
    IF delta > 0
    THEN RatMul(z, factor)
    ELSE RatMul(z, <<9, 10>>)

\* scrollZoom: the zoom after a scroll event in direction delta
Zoomed(z, delta) ==
    IF delta > 0
    THEN RatMul(z, factor)
    ELSE RatMul(z, <<factor[2], factor[1]>>)

\* pan: drag_scale, from the canvas size, aspect_ratio and zoom
DragScaleOver(m, z) == (((2 * Unit) \div m) * z[2]) \div z[1]

DragScale(cv, ar, z) ==
    IF RatGt(ar, <<1, 1>>)
    THEN DragScaleOver(cv[2], z)
    ELSE DragScaleOver(cv[1], z)

\* (mutant) the clamp with its lower bound forgotten
ClampLatitudeUpperOnly(lat) == Min(lat, HalfPi)

\* pan: Math.max(Math.min(centerLatitude, +0.5 * Math.PI), -0.5 * Math.PI)
ClampLatitude(lat) == Max(Min(lat, HalfPi), -HalfPi)

\* pan: the "north-up" rotation matrix of a longitude and a latitude
NorthUp(lon, lat) ==
    LET cy == Cos(-lon)
        sy == Sin(-lon)
        cx == Cos(lat)
        sx == Sin(lat)
    IN  << cy,               0,   sy,
           TrigMul(sx, sy),  cx,  TrigMul(-sx, cy),
           TrigMul(-cx, sy), sx,  TrigMul(cx, cy) >>

\* (mutants) the limit test with one of its two tests forgotten
TooMuchDxOnly(dx, dy) == Abs(dx) > DragLimit
TooMuchDyOnly(dx, dy) == Abs(dy) > DragLimit

\* pan: Math.abs(dx) > 30 or Math.abs(dy) > 30, "too much"
TooMuch(dx, dy) == Abs(dx) > DragLimit \/ Abs(dy) > DragLimit

\* (mutant) the rotation computed before centerLongitude is updated
PannedStale(dx, dy) ==
    LET drag_scale == DragScale(canvas, aspect_ratio, zoom)
        lon == centerLongitude + (-dx * drag_scale)
        lat == ClampLatitude(centerLatitude + dy * drag_scale)
    IN  [ lon |-> lon, lat |-> lat, rot |-> NorthUp(centerLongitude, lat) ]

\* pan, once the delta is accepted: the new centerLongitude, centerLatitude, rotation
Panned(dx, dy) ==
    LET drag_scale == DragScale(canvas, aspect_ratio, zoom)
        dlong == -dx * drag_scale
        dLat == dy * drag_scale
        lon == centerLongitude + dlong
        lat == ClampLatitude(centerLatitude + dLat)
    IN  [ lon |-> lon, lat |-> lat, rot |-> NorthUp(lon, lat) ]

\* (mutant) the anchor moved only once the delta has passed the limit test
PanAnchorAfterLimit(x, y) ==
    LET dx == x - dragX
        dy == y - dragY
        same == [ path |-> "nochange", dragX |-> dragX, dragY |-> dragY,
                  lon |-> centerLongitude, lat |-> centerLatitude,
                  rot |-> rotation ]
        new == Panned(dx, dy)
    IN  IF dx = 0 /\ dy = 0
        THEN same
        ELSE IF TooMuch(dx, dy)
        THEN [ same EXCEPT !.path = "toomuch" ]
        ELSE [ path |-> "applied", dragX |-> x, dragY |-> y,
               lon |-> new.lon, lat |-> new.lat, rot |-> new.rot ]

\* pan(x, y): the return it takes, and the values it leaves behind
Pan(x, y) ==
    LET dx == x - dragX
        dy == y - dragY
        same == [ path |-> "nochange", dragX |-> dragX, dragY |-> dragY,
                  lon |-> centerLongitude, lat |-> centerLatitude,
                  rot |-> rotation ]
        new == Panned(dx, dy)
    IN  IF dx = 0 /\ dy = 0
        THEN same
        ELSE IF TooMuch(dx, dy)
        THEN [ same EXCEPT !.path = "toomuch", !.dragX = x, !.dragY = y ]
        ELSE [ path |-> "applied", dragX |-> x, dragY |-> y,
               lon |-> new.lon, lat |-> new.lat, rot |-> new.rot ]

\* the number a string of the height box converts to, as <<is NaN, value>>
ToNumber(s) ==
    CASE s = "8000" -> <<FALSE, 8000>>
      [] s = "400" -> <<FALSE, 400>>
      [] s = "20000" -> <<FALSE, 20000>>
      [] s = "-500" -> <<FALSE, -500>>
      [] s = ""     -> <<FALSE, 0>>
      [] OTHER      -> <<TRUE, 0>>

\* value / radiusKm
HeightOf(n) ==
    IF n[1]
    THEN [ nan |-> TRUE, v |-> 0 ]
    ELSE [ nan |-> FALSE, v |-> (n[2] * HeightUnit) \div radiusKm ]

\* resize: displayWidth / displayHeight
AspectOf(w, h) == Rat(w, h)

\* the uniforms of a program object that has just been linked: all zero
ZeroMatrix == << 0, 0, 0,  0, 0, 0,  0, 0, 0 >>
NoUniforms ==
    [ zoom |-> <<0, 1>>, aspect_ratio |-> <<0, 1>>, projection |-> 0,
      rotation |-> ZeroMatrix, view_height |-> [ nan |-> FALSE, v |-> 0 ] ]

\* initGL: gl.uniform1f of zoom_loc, aspect_loc and view_height_loc
InitialUniforms(z, ar, vh) ==
    [ NoUniforms EXCEPT !.zoom = z, !.aspect_ratio = ar, !.view_height = vh ]

\* drawScene: the five uniform uploads of a frame
FrameUniforms(z, ar, proj, rot, vh) ==
    [ zoom |-> z, aspect_ratio |-> ar, projection |-> proj, rotation |-> rot,
      view_height |-> vh ]

\* no fragment has been shaded
NoFragment ==
    [ shaded |-> FALSE, x |-> 0, y |-> 0, discarded |-> FALSE, nan |-> FALSE,
      xyz |-> <<0, 0, 0>>, t |-> 0, world |-> <<0, 0, 0>>, lod |-> 0 ]

\* what `last` records: an event, the return taken, and for a pointer or touch
\* event its position and its number of touch points (0 for a mouse event)
Ev(name, path) ==
    [ event |-> name, path |-> path, x |-> 0, y |-> 0, touches |-> 0 ]
EvAt(name, path, p, n) ==
    [ event |-> name, path |-> path, x |-> p[1], y |-> p[2], touches |-> n ]

----------------------------------------------------------------------------
(* The shaders *)

\* the size of the world image, world.topo.bathy.200411.3x5400x2700.jpg
ImageWidth == 5400
ImageHeight == 2700

\* the last level of the mipmap generateMipmap builds for it
MaxMipLevel == FloorLog2(Max(ImageWidth, ImageHeight), 1)

\* vertexShader main: the vec2 aspect, as the rational scales of x and of y
AspectScale(ar) ==
    IF RatGt(<<1, 1>>, ar)
    THEN << <<1, 1>>, <<ar[2], ar[1]>> >>
    ELSE << ar, <<1, 1>> >>

\* SCREEN_COORD interpolated at the centre of pixel i of n
PixelCentre(i, n) == ((2 * i + 1) * Fix) \div n - Fix

\* vertexShader main: aspect * SCREEN_COORD / zoom, for one coordinate
ScreenCoord(c, a, z) == (((c * a[1]) \div a[2]) * z[2]) \div z[1]

\* what a deprojection gives: discard, a NaN vector, or a point (and for the
\* perspective the ray parameter t it was found at)
Discard == [ discarded |-> TRUE, nan |-> FALSE, xyz |-> <<0, 0, 0>>, t |-> 0 ]
NotANumber == [ discarded |-> FALSE, nan |-> TRUE, xyz |-> <<0, 0, 0>>, t |-> 0 ]
Return(p, t) == [ discarded |-> FALSE, nan |-> FALSE, xyz |-> p, t |-> t ]

\* fragmentShader sphereFromEquirectangular
sphereFromEquirectangular(sx, sy) ==
    LET lat == sy * (Unit \div Fix)
        lon == sx * (Unit \div Fix)
        y == Sin(lat)
        s == Cos(lat)
        x == TrigMul(s, Sin(lon))
        z == TrigMul(s, Cos(lon))
    IN  IF Abs(lat) > HalfPi
        THEN Discard
        ELSE Return(<< x \div (TrigOne \div Fix), y \div (TrigOne \div Fix),
                       z \div (TrigOne \div Fix) >>, 0)

\* (mutant) the square root forgotten
sphereFromOrthographicNoRoot(x, y) ==
    LET z == Fix * Fix - x * x - y * y
    IN  IF z < 0
        THEN Discard
        ELSE Return(<<x, y, z \div Fix>>, 0)

\* fragmentShader sphereFromOrthographic; z counts 1/Fix^2 before the root
sphereFromOrthographic(x, y) ==
    LET z == Fix * Fix - x * x - y * y
    IN  IF z < 0
        THEN Discard
        ELSE Return(<<x, y, Isqrt(z)>>, 0)

\* (mutant) the other root of the quadratic
sphereFromPerspectiveFarRoot(x, y, vh) ==
    LET h == vh.v
        vh2 == h * h
        qa == (x * x + y * y + vh2) \div Fix
        qb == (-2 * (vh2 + h * Fix)) \div Fix
        qc == (vh2 + 2 * h * Fix) \div Fix
        determinant == qb * qb - 4 * qa * qc
        t == ((-qb + Isqrt(determinant)) * Fix) \div (2 * qa)
    IN  IF vh.nan
        THEN NotANumber
        ELSE IF determinant < 0
        THEN Discard
        ELSE IF qa = 0
        THEN NotANumber
        ELSE Return(<< (t * x) \div Fix, (t * y) \div Fix,
                       h + Fix - (t * h) \div Fix >>, t)

\* fragmentShader sphereFromPerspective; vh2 counts 1/Fix^2, qa, qb, qc 1/Fix,
\* determinant 1/Fix^2.  A NaN view_height makes every comparison false and the
\* result NaN; so does 0/0.
sphereFromPerspective(x, y, vh) ==
    LET h == vh.v
        vh2 == h * h
        qa == (x * x + y * y + vh2) \div Fix
        qb == (-2 * (vh2 + h * Fix)) \div Fix
        qc == (vh2 + 2 * h * Fix) \div Fix
        determinant == qb * qb - 4 * qa * qc
        t == ((-qb - Isqrt(determinant)) * Fix) \div (2 * qa)
    IN  IF vh.nan
        THEN NotANumber
        ELSE IF determinant < 0
        THEN Discard
        ELSE IF qa = 0
        THEN NotANumber
        ELSE Return(<< (t * x) \div Fix, (t * y) \div Fix,
                       h + Fix - (t * h) \div Fix >>, t)

\* rotation * xyz; uniformMatrix3fv takes the nine entries column by column
Rotated(m, v) ==
    << (m[1] * v[1] + m[4] * v[2] + m[7] * v[3]) \div TrigOne,
       (m[2] * v[1] + m[5] * v[2] + m[8] * v[3]) \div TrigOne,
       (m[3] * v[1] + m[6] * v[2] + m[9] * v[3]) \div TrigOne >>

\* fragmentShader main: dFdx(screen_xy.x), in 1/Unit radian
RadiansPerScreenPixel(u, cv) ==
    ScreenCoord((2 * Unit) \div cv[1], AspectScale(u.aspect_ratio)[1], u.zoom)

\* fragmentShader main: PI / float(textureSize(world_texture, 0).y)
RadiansPerImagePixel == Pi \div ImageHeight

\* fragmentShader main: the lod handed to textureLod (its integer part)
Lod(u, cv) == FloorLog2(RadiansPerScreenPixel(u, cv), RadiansPerImagePixel)

\* the shaders run for the fragment of pixel (i, j) of a canvas of size cv with
\* uniforms u, up to the texture fetch
Shaded(u, cv, i, j) ==
    LET a == AspectScale(u.aspect_ratio)
        x == ScreenCoord(PixelCentre(i, cv[1]), a[1], u.zoom)
        y == ScreenCoord(PixelCentre(j, cv[2]), a[2], u.zoom)
        p == IF u.projection = EQUIRECTANGULAR
             THEN sphereFromEquirectangular(x, y)
             ELSE IF u.projection = ORTHOGRAPHIC
             THEN sphereFromOrthographic(x, y)
             ELSE sphereFromPerspective(x, y, u.view_height)
    IN  [ shaded |-> TRUE, x |-> x, y |-> y,
          discarded |-> p.discarded, nan |-> p.nan, xyz |-> p.xyz, t |-> p.t,
          world |-> IF p.discarded \/ p.nan
                    THEN <<0, 0, 0>>
                    ELSE Rotated(u.rotation, p.xyz),
          lod |-> IF p.discarded THEN 0 ELSE Lod(u, cv) ]

----------------------------------------------------------------------------
(* Initial state: globeview.start() has returned.  getContext("webgl2") has  *)
(* given a context or null; the size of the canvas element and whether the   *)
(* height_input box starts disabled are set by the page, so either is taken; *)
(* the image is still loading and no frame has been requested.               *)

Init ==
    /\ gl \in { "null", "ctx" }
    /\ image = "loading"
    /\ texture = FALSE
    /\ rafPending = 0
    /\ canvas \in Sizes
    /\ zoom = <<1, 1>>
    /\ projection = ORTHOGRAPHIC
    /\ rotation = << TrigOne, 0, 0,  0, TrigOne, 0,  0, 0, TrigOne >>
    /\ centerLongitude = 0
    /\ centerLatitude = 0
    /\ aspect_ratio = <<1, 1>>
    /\ view_height = HeightOf(<<FALSE, 10000>>)
    /\ height_disabled \in BOOLEAN
    /\ is_dragging = FALSE
    /\ dragX = 0
    /\ dragY = 0
    /\ uniforms = IF gl = "ctx"
                  THEN InitialUniforms(zoom, aspect_ratio, view_height)
                  ELSE NoUniforms
    /\ fragment = NoFragment
    /\ steps = 0
    /\ last = Ev("start", "")

----------------------------------------------------------------------------
(* Events *)

\* one more event is dispatched; no event handler shades a fragment itself
Tick == steps < MaxEvents /\ steps' = steps + 1 /\ fragment' = fragment

\* image.onload
ImageLoad ==
    /\ Tick
    /\ image = "loading"
    /\ IF gl = "null"
       THEN /\ image' = "error"       \* gl.texImage2D on null throws
            /\ UNCHANGED <<texture, rafPending>>
       ELSE /\ image' = "loaded"
            /\ texture' = TRUE
            /\ rafPending' = rafPending + 1
    /\ last' = Ev("load", image')
    /\ UNCHANGED <<gl, uniforms, canvas, camera, height_disabled, is_dragging,
                   dragX, dragY>>

\* (mutant) a frame that does not request the next one
DrawSceneWithoutRequest(client) ==
    /\ Tick
    /\ rafPending > 0
    /\ IF canvas # client
       THEN /\ canvas' = client
            /\ aspect_ratio' = AspectOf(client[1], client[2])
       ELSE UNCHANGED <<canvas, aspect_ratio>>
    /\ uniforms' = FrameUniforms(zoom, aspect_ratio', projection, rotation,
                                 view_height)
    /\ rafPending' = rafPending - 1
    /\ last' = Ev("frame", IF canvas # client THEN "resized" ELSE "same")
    /\ UNCHANGED <<gl, image, texture, zoom, projection, rotation,
                   centerLongitude, centerLatitude, view_height,
                   height_disabled, is_dragging, dragX, dragY>>

\* (mutant) a resize that also puts the zoom back to its initial value
DrawSceneResizeResetsZoom(client) ==
    /\ Tick
    /\ rafPending > 0
    /\ IF canvas # client
       THEN /\ canvas' = client
            /\ aspect_ratio' = AspectOf(client[1], client[2])
            /\ zoom' = <<1, 1>>
       ELSE UNCHANGED <<canvas, aspect_ratio, zoom>>
    /\ uniforms' = FrameUniforms(zoom', aspect_ratio', projection, rotation,
                                 view_height)
    /\ rafPending' = (rafPending - 1) + 1
    /\ last' = Ev("frame", IF canvas # client THEN "resized" ELSE "same")
    /\ UNCHANGED <<gl, image, texture, projection, rotation,
                   centerLongitude, centerLatitude, view_height,
                   height_disabled, is_dragging, dragX, dragY>>

\* (mutant) the aspect uniform uploaded before resize has run
DrawSceneAspectBeforeResize(client) ==
    /\ Tick
    /\ rafPending > 0
    /\ IF canvas # client
       THEN /\ canvas' = client
            /\ aspect_ratio' = AspectOf(client[1], client[2])
       ELSE UNCHANGED <<canvas, aspect_ratio>>
    /\ uniforms' = FrameUniforms(zoom, aspect_ratio, projection, rotation,
                                 view_height)
    /\ rafPending' = (rafPending - 1) + 1
    /\ last' = Ev("frame", IF canvas # client THEN "resized" ELSE "same")
    /\ UNCHANGED <<gl, image, texture, zoom, projection, rotation,
                   centerLongitude, centerLatitude, view_height,
                   height_disabled, is_dragging, dragX, dragY>>

\* drawScene, run as an animation frame while the canvas is displayed at size client
DrawScene(client) ==
    /\ Tick
    /\ rafPending > 0
    /\ IF canvas # client
       THEN /\ canvas' = client
            /\ aspect_ratio' = AspectOf(client[1], client[2])
       ELSE UNCHANGED <<canvas, aspect_ratio>>
    /\ uniforms' = FrameUniforms(zoom, aspect_ratio', projection, rotation,
                                 view_height)
    /\ rafPending' = (rafPending - 1) + 1
    /\ last' = Ev("frame", IF canvas # client THEN "resized" ELSE "same")
    /\ UNCHANGED <<gl, image, texture, zoom, projection, rotation,
                   centerLongitude, centerLatitude, view_height,
                   height_disabled, is_dragging, dragX, dragY>>

\* (mutant) a scroll that also ends the drag session
ScrollZoomEndsDrag(w) ==
    LET delta == WheelDirection(w)
        z == Zoomed(zoom, delta)
    IN  /\ Tick
        /\ z[1] <= Pow(factor[1], MaxZoomSteps)
        /\ z[2] <= Pow(factor[1], MaxZoomSteps)
        /\ zoom' = z
        /\ is_dragging' = FALSE
        /\ last' = Ev("wheel", IF delta > 0 THEN "in" ELSE "out")
        /\ UNCHANGED <<gl, image, texture, uniforms, rafPending, canvas, projection,
                       rotation, centerLongitude, centerLatitude, aspect_ratio,
                       view_height, height_disabled, dragX, dragY>>

\* scrollZoom, for "mousewheel" and "DOMMouseScroll"
ScrollZoom(w) ==
    LET delta == WheelDirection(w)
        z == Zoomed(zoom, delta)
    IN  /\ Tick
        /\ z[1] <= Pow(factor[1], MaxZoomSteps)
        /\ z[2] <= Pow(factor[1], MaxZoomSteps)
        /\ zoom' = z
        /\ last' = Ev("wheel", IF delta > 0 THEN "in" ELSE "out")
        /\ UNCHANGED <<gl, image, texture, uniforms, rafPending, canvas, projection,
                       rotation, centerLongitude, centerLatitude, aspect_ratio,
                       view_height, height_disabled, is_dragging, dragX, dragY>>

\* the part of a handler that calls pan(x, y)
DoPan(name, x, y, n) ==
    LET r == Pan(x, y)
    IN  /\ dragX' = r.dragX
        /\ dragY' = r.dragY
        /\ centerLongitude' = r.lon
        /\ centerLatitude' = r.lat
        /\ rotation' = r.rot
        /\ last' = EvAt(name, r.path, <<x, y>>, n)

\* (mutant) a mousedown that keeps the anchor of the session already active
MouseDownKeepsAnchor(p) ==
    /\ Tick
    /\ is_dragging' = TRUE
    /\ dragX' = IF is_dragging THEN dragX ELSE p[1]
    /\ dragY' = IF is_dragging THEN dragY ELSE p[2]
    /\ last' = EvAt("mousedown", "", p, 0)
    /\ UNCHANGED <<gl, image, texture, uniforms, rafPending, canvas, camera,
                   height_disabled>>

MouseDown(p) ==
    /\ Tick
    /\ is_dragging' = TRUE
    /\ dragX' = p[1]
    /\ dragY' = p[2]
    /\ last' = EvAt("mousedown", "", p, 0)
    /\ UNCHANGED <<gl, image, texture, uniforms, rafPending, canvas, camera,
                   height_disabled>>

\* (mutant) mousemove panning whether or not a session is active
MouseMoveUnguarded(p) ==
    /\ Tick
    /\ DoPan("mousemove", p[1], p[2], 0)
    /\ UNCHANGED <<gl, image, texture, uniforms, rafPending, canvas, zoom, projection,
                   aspect_ratio, view_height, height_disabled, is_dragging>>

MouseMove(p) ==
    /\ Tick
    /\ IF ~is_dragging
       THEN /\ last' = EvAt("mousemove", "ignored", p, 0)
            /\ UNCHANGED <<dragX, dragY, centerLongitude, centerLatitude,
                           rotation>>
       ELSE DoPan("mousemove", p[1], p[2], 0)
    /\ UNCHANGED <<gl, image, texture, uniforms, rafPending, canvas, zoom, projection,
                   aspect_ratio, view_height, height_disabled, is_dragging>>

MouseUp ==
    /\ Tick
    /\ is_dragging' = FALSE
    /\ last' = Ev("mouseup", "")
    /\ UNCHANGED <<gl, image, texture, uniforms, rafPending, canvas, camera,
                   height_disabled, dragX, dragY>>

MouseOut ==
    /\ Tick
    /\ is_dragging' = FALSE
    /\ last' = Ev("mouseout", "")
    /\ UNCHANGED <<gl, image, texture, uniforms, rafPending, canvas, camera,
                   height_disabled, dragX, dragY>>

\* touchstart with n touch points, the first at p
TouchStart(n, p) ==
    /\ Tick
    /\ IF n # 1
       THEN /\ is_dragging' = FALSE
            /\ last' = EvAt("touchstart", "multi", p, n)
            /\ UNCHANGED <<dragX, dragY>>
       ELSE /\ is_dragging' = TRUE
            /\ dragX' = p[1]
            /\ dragY' = p[2]
            /\ last' = EvAt("touchstart", "", p, n)
    /\ UNCHANGED <<gl, image, texture, uniforms, rafPending, canvas, camera,
                   height_disabled>>

\* (mutant) touchmove panning by its first touch point whatever their number
TouchMoveAnyCount(n, p) ==
    /\ Tick
    /\ IF ~is_dragging
       THEN /\ last' = EvAt("touchmove", "ignored", p, n)
            /\ UNCHANGED <<is_dragging, dragX, dragY, centerLongitude,
                           centerLatitude, rotation>>
       ELSE /\ DoPan("touchmove", p[1], p[2], n)
            /\ UNCHANGED is_dragging
    /\ UNCHANGED <<gl, image, texture, uniforms, rafPending, canvas, zoom, projection,
                   aspect_ratio, view_height, height_disabled>>

\* touchmove with n touch points, the first at p
TouchMove(n, p) ==
    /\ Tick
    /\ IF ~is_dragging
       THEN /\ last' = EvAt("touchmove", "ignored", p, n)
            /\ UNCHANGED <<is_dragging, dragX, dragY, centerLongitude,
                           centerLatitude, rotation>>
       ELSE IF n # 1
       THEN /\ is_dragging' = FALSE
            /\ last' = EvAt("touchmove", "multi", p, n)
            /\ UNCHANGED <<dragX, dragY, centerLongitude, centerLatitude,
                           rotation>>
       ELSE /\ DoPan("touchmove", p[1], p[2], n)
            /\ UNCHANGED is_dragging
    /\ UNCHANGED <<gl, image, texture, uniforms, rafPending, canvas, zoom, projection,
                   aspect_ratio, view_height, height_disabled>>

TouchEnd ==
    /\ Tick
    /\ is_dragging' = FALSE
    /\ last' = Ev("touchend", "")
    /\ UNCHANGED <<gl, image, texture, uniforms, rafPending, canvas, camera,
                   height_disabled, dragX, dragY>>

\* the "input" listener of height_input; a disabled box takes no input
HeightInput(s) ==
    /\ Tick
    /\ ~height_disabled
    /\ view_height' = HeightOf(ToNumber(s))
    /\ last' = Ev("input", "")
    /\ UNCHANGED <<gl, image, texture, uniforms, rafPending, canvas, zoom, projection,
                   rotation, centerLongitude, centerLatitude, aspect_ratio,
                   height_disabled, is_dragging, dragX, dragY>>

\* (mutant) the orthographic branch enabling the height box
ProjectionChangedOrthographicEnables(proj) ==
    /\ Tick
    /\ IF proj = "equirectangular"
       THEN /\ projection' = EQUIRECTANGULAR
            /\ height_disabled' = TRUE
       ELSE IF proj = "orthographic"
       THEN /\ projection' = ORTHOGRAPHIC
            /\ height_disabled' = FALSE
       ELSE /\ projection' = PERSPECTIVE
            /\ height_disabled' = FALSE
    /\ last' = Ev("projection", "")
    /\ UNCHANGED <<gl, image, texture, uniforms, rafPending, canvas, zoom, rotation,
                   centerLongitude, centerLatitude, aspect_ratio, view_height,
                   is_dragging, dragX, dragY>>

\* globeview.projectionChanged(proj)
ProjectionChanged(proj) ==
    /\ Tick
    /\ IF proj = "equirectangular"
       THEN /\ projection' = EQUIRECTANGULAR
            /\ height_disabled' = TRUE
       ELSE IF proj = "orthographic"
       THEN /\ projection' = ORTHOGRAPHIC
            /\ height_disabled' = TRUE
       ELSE /\ projection' = PERSPECTIVE
            /\ height_disabled' = FALSE
    /\ last' = Ev("projection", "")
    /\ UNCHANGED <<gl, image, texture, uniforms, rafPending, canvas, zoom, rotation,
                   centerLongitude, centerLatitude, aspect_ratio, view_height,
                   is_dragging, dragX, dragY>>

ProjectionNames == { "equirectangular", "orthographic", "perspective" }

Next ==
    \/ ImageLoad
    \/ \E client \in Sizes : DrawScene(client)
    \/ \E w \in Wheels : ScrollZoom(w)
    \/ \E p \in Points : MouseDown(p)
    \/ \E p \in Points : MouseMove(p)
    \/ MouseUp
    \/ MouseOut
    \/ \E n \in TouchCounts, p \in Points : TouchStart(n, p)
    \/ \E n \in TouchCounts, p \in Points : TouchMove(n, p)
    \/ TouchEnd
    \/ \E s \in HeightValues : HeightInput(s)
    \/ \E proj \in ProjectionNames : ProjectionChanged(proj)

Spec == Init /\ [][Next]_vars

----------------------------------------------------------------------------
(* The fragments of one frame: the state is the one a frame has just drawn,  *)
(* for any projection, zoom, height and canvas the events can have produced, *)
(* and a step shades the fragment of one pixel of that frame.                *)

\* the columns (rows) of a canvas n pixels wide (high) that are looked at
Pixels(n) ==
    { 0, n \div 8, n \div 4, (3 * n) \div 8, n \div 2, (5 * n) \div 8,
      (3 * n) \div 4, (7 * n) \div 8, n - 1 }

FrameInit ==
    /\ gl = "ctx"
    /\ image = "loaded"
    /\ texture = TRUE
    /\ rafPending = 1
    /\ canvas \in ShadedSizes
    /\ zoom \in { FactorPower(k) : k \in -MaxZoomSteps .. MaxZoomSteps }
    /\ projection \in { EQUIRECTANGULAR, ORTHOGRAPHIC, PERSPECTIVE }
    /\ rotation = << TrigOne, 0, 0,  0, TrigOne, 0,  0, 0, TrigOne >>
    /\ centerLongitude = 0
    /\ centerLatitude = 0
    /\ aspect_ratio \in { <<1, 1>>, AspectOf(canvas[1], canvas[2]) }
    /\ view_height \in { HeightOf(<<FALSE, 10000>>) }
                        \cup { HeightOf(ToNumber(s)) : s \in ShadedHeightValues }
    /\ height_disabled = (projection # PERSPECTIVE)
    /\ is_dragging = FALSE
    /\ dragX = 0
    /\ dragY = 0
    /\ uniforms = FrameUniforms(zoom, aspect_ratio, projection, rotation,
                                view_height)
    /\ fragment = NoFragment
    /\ steps = 0
    /\ last = Ev("frame", "same")

\* the fragment of pixel (i, j) is shaded (one fragment is followed per frame)
ShadeFragment(i, j) ==
    /\ ~fragment.shaded
    /\ fragment' = Shaded(uniforms, canvas, i, j)
    /\ UNCHANGED <<gl, image, texture, uniforms, rafPending, canvas, camera,
                   height_disabled, is_dragging, dragX, dragY, steps, last>>

FrameNext ==
    \E i \in Pixels(canvas[1]), j \in Pixels(canvas[2]) : ShadeFragment(i, j)

FrameSpec == FrameInit /\ [][FrameNext]_vars

----------------------------------------------------------------------------
(* What a step did, read off the event it handled (last') and the state before *)

IsMove(e) == e.event \in { "mousemove", "touchmove" }

\* the step handled a continueDrag: a movement event with one pointer, in a session
ContinueDrag == IsMove(last') /\ is_dragging /\ last'.touches \in { 0, 1 }

\* its delta from the anchor
Dx == last'.x - dragX
Dy == last'.y - dragY

ZeroDelta == Dx = 0 /\ Dy = 0
TooFar == Abs(Dx) > DragLimit \/ Abs(Dy) > DragLimit
Accepted == ContinueDrag /\ ~ZeroDelta /\ ~TooFar

Identity == << TrigOne, 0, 0,  0, TrigOne, 0,  0, 0, TrigOne >>

----------------------------------------------------------------------------
(* C1 *)

LatitudeInRange == -HalfPi <= centerLatitude /\ centerLatitude <= HalfPi

\* C1: centerLatitude is in [-pi/2, +pi/2] in every reachable state, and an accepted
\* continueDrag whose latitude delta would carry it past a bound leaves it exactly
\* at that bound (otherwise exactly at the sum).
C1_LatitudeSaturates ==
    /\ []LatitudeInRange
    /\ [][ Accepted =>
             LET target == centerLatitude
                           + Dy * DragScale(canvas, aspect_ratio, zoom)
             IN  centerLatitude' = IF target > HalfPi THEN HalfPi
                                   ELSE IF target < -HalfPi THEN -HalfPi
                                   ELSE target ]_vars

\* a second accepted drag has pushed the latitude onto the north bound
C1_Witness ==
    /\ last.path = "applied"
    /\ steps >= 4
    /\ centerLatitude = HalfPi

----------------------------------------------------------------------------
(* C2 *)

\* C2: in every reachable state, the initial one included, rotation is the north-up
\* matrix of the current centerLongitude and centerLatitude.
C2_RotationDerived == rotation = NorthUp(centerLongitude, centerLatitude)

C2_Witness ==
    /\ last.path = "applied"
    /\ centerLongitude # 0
    /\ centerLatitude # 0
    /\ rotation # Identity

----------------------------------------------------------------------------
(* C3 *)

\* C3: a continueDrag whose delta is (0,0), or has |dx| > 30 or |dy| > 30, changes
\* none of centerLongitude, centerLatitude, rotation, zoom; with a zero delta it
\* changes nothing at all.
C3_RejectedDragKeepsCamera ==
    [][ (ContinueDrag /\ (ZeroDelta \/ TooFar)) =>
          /\ UNCHANGED <<centerLongitude, centerLatitude, rotation, zoom>>
          /\ ZeroDelta =>
               UNCHANGED <<gl, image, texture, uniforms, rafPending, canvas, camera,
                           height_disabled, is_dragging, dragX, dragY>> ]_vars

\* a drag was rejected as too far after the view had been panned
C3_Witness ==
    /\ IsMove(last)
    /\ last.path = "toomuch"
    /\ centerLongitude # 0

----------------------------------------------------------------------------
(* C4 *)

\* C4 as claimed: a continueDrag rejected because |dx| > 30 or |dy| > 30 leaves
\* the anchor at its previous position.
C4_Original ==
    [][ (ContinueDrag /\ TooFar) => UNCHANGED <<dragX, dragY>> ]_vars

\* C4 as amended: every continueDrag with a non-zero delta moves the anchor to
\* (x,y), the one rejected as too far included, which changes nothing else; only a
\* zero delta leaves the anchor where it was.
C4_AnchorFollowsPointer ==
    [][ ContinueDrag =>
          /\ dragX' = last'.x
          /\ dragY' = last'.y
          /\ ZeroDelta => UNCHANGED <<dragX, dragY>>
          /\ TooFar => UNCHANGED <<camera, is_dragging>> ]_vars

\* a rejected drag has moved the anchor to the pointer
C4_Witness ==
    /\ IsMove(last)
    /\ last.path = "toomuch"
    /\ is_dragging
    /\ <<dragX, dragY>> = <<last.x, last.y>>

----------------------------------------------------------------------------
(* C5 *)

\* C5: every accepted continueDrag lowers centerLongitude by dx*dragScale and
\* raises centerLatitude (before clamping) by dy*dragScale, where
\* dragScale = 2 / min(viewportWidth, viewportHeight) / zoom.
C5_DragScaleOfSmallerSide ==
    [][ Accepted =>
          LET dragScale == DragScaleOver(Min(canvas[1], canvas[2]), zoom)
          IN  /\ centerLongitude' = centerLongitude - Dx * dragScale
              /\ centerLatitude' = ClampLatitude(centerLatitude + Dy * dragScale)
      ]_vars

----------------------------------------------------------------------------
(* C6 *)

Exponents == -(MaxZoomSteps + 1) .. (MaxZoomSteps + 1)
IsFactorPower(z) == \E k \in Exponents : z = FactorPower(k)
ExponentOf(z) == CHOOSE k \in Exponents : z = FactorPower(k)

\* C6: zoom starts at 1.10^0, every zoom-in event raises its exponent by one, every
\* zoom-out event lowers it by one and no other event changes it, so that after m
\* zoom-ins and n zoom-outs zoom = 1.10^(m-n); and zoom is always positive.
C6_ZoomIsFactorPower ==
    /\ [](steps = 0 => zoom = FactorPower(0))
    /\ [](IsFactorPower(zoom) /\ zoom[1] > 0 /\ zoom[2] > 0)
    /\ [][ IF last'.event = "wheel"
           THEN ExponentOf(zoom') =
                  ExponentOf(zoom) + (IF last'.path = "in" THEN 1 ELSE -1)
           ELSE zoom' = zoom ]_vars

\* three zoom-ins (1.331) and then one zoom-out: 1.21
C6_Witness ==
    /\ steps = 4
    /\ last.event = "wheel"
    /\ last.path = "out"
    /\ zoom = <<121, 100>>

----------------------------------------------------------------------------
(* C7 *)

\* C7: outside a drag session (before any beginDrag, after mouseup, touchend or
\* mouseout) a movement event leaves centerLongitude, centerLatitude, rotation and
\* the anchor unchanged; the session is over after each of those end events and
\* starts again only with a mousedown or a single-point touchstart.
C7_NoPanOutsideSession ==
    /\ [](steps = 0 => ~is_dragging)
    /\ [][ /\ (IsMove(last') /\ ~is_dragging) =>
                UNCHANGED <<centerLongitude, centerLatitude, rotation,
                            dragX, dragY, is_dragging>>
           /\ last'.event \in { "mouseup", "mouseout", "touchend" } =>
                ~is_dragging'
           /\ (~is_dragging /\ is_dragging') =>
                \/ last'.event = "mousedown"
                \/ last'.event = "touchstart" /\ last'.touches = 1 ]_vars

\* the pointer moved after the session that panned the view had ended
C7_Witness ==
    /\ IsMove(last)
    /\ last.path = "ignored"
    /\ ~is_dragging
    /\ centerLongitude # 0

----------------------------------------------------------------------------
(* C8 *)

\* C8: a touchstart or touchmove with a number of touch points other than one,
\* during a session, ends the session without changing the camera, and no movement
\* pans the view while no session is active.
C8_MultiTouchCancels ==
    [][ /\ ( /\ last'.event \in { "touchstart", "touchmove" }
             /\ last'.touches # 1
             /\ is_dragging ) =>
               /\ ~is_dragging'
               /\ UNCHANGED <<centerLongitude, centerLatitude, rotation, zoom>>
        /\ (IsMove(last') /\ ~is_dragging) =>
               UNCHANGED <<centerLongitude, centerLatitude, rotation>> ]_vars

\* a two-point touchmove has cancelled the session that panned the view
C8_Witness ==
    /\ last.event = "touchmove"
    /\ last.touches = 2
    /\ last.path = "multi"
    /\ ~is_dragging
    /\ centerLongitude # 0

----------------------------------------------------------------------------
(* C9 *)

\* C9 as claimed: centerLongitude is in (-pi, +pi] in every reachable state.
C9_Original == -Pi < centerLongitude /\ centerLongitude <= Pi

\* C9 as amended: centerLongitude is not wrapped; only an accepted continueDrag
\* changes it, by -dx*drag_scale, which is at most 30*drag_scale either way.
C9_LongitudeAccumulates ==
    [][ LET drag_scale == DragScale(canvas, aspect_ratio, zoom)
        IN  IF Accepted
            THEN /\ centerLongitude' = centerLongitude - Dx * drag_scale
                 /\ Abs(centerLongitude' - centerLongitude)
                      <= DragLimit * drag_scale
            ELSE centerLongitude' = centerLongitude ]_vars

\* accepted drags have carried the longitude below -pi
C9_Witness ==
    /\ last.path = "applied"
    /\ centerLongitude <= -Pi

----------------------------------------------------------------------------
(* C10 *)

\* C10: view_height is a strictly positive number in every reachable state.
C10_ViewHeightPositive == ~view_height.nan /\ view_height.v > 0

----------------------------------------------------------------------------
(* C11 *)

\* the height box is enabled exactly under PERSPECTIVE
HeightBoxFollowsProjection == height_disabled <=> projection # PERSPECTIVE

\* C11: every projectionChanged leaves the height box enabled if and only if the
\* projection it has set is PERSPECTIVE, no later event undoes that, and from then
\* on view_height is changed only by the input event of the height box and only
\* while the projection is PERSPECTIVE.
C11_HeightEditableOnlyInPerspective ==
    [][ /\ last'.event = "projection" => HeightBoxFollowsProjection'
        /\ HeightBoxFollowsProjection => HeightBoxFollowsProjection'
        /\ view_height' # view_height => last'.event = "input"
        /\ (HeightBoxFollowsProjection /\ last'.event = "input") =>
               /\ projection = PERSPECTIVE
               /\ projection' = PERSPECTIVE ]_vars

\* the height was edited after projectionChanged had set PERSPECTIVE
C11_Witness ==
    /\ last.event = "input"
    /\ projection = PERSPECTIVE
    /\ ~height_disabled
    /\ view_height # HeightOf(<<FALSE, 10000>>)

----------------------------------------------------------------------------
(* C12 *)

\* C12: once resize has run in a frame, aspect_ratio is canvas.width / canvas.height,
\* whatever size the canvas had and whatever size it is displayed at.
C12_AspectIsWidthOverHeight ==
    last.event = "frame" => aspect_ratio = AspectOf(canvas[1], canvas[2])

----------------------------------------------------------------------------
(* C13 *)

InputEvents ==
    { "wheel", "mousedown", "mousemove", "mouseup", "mouseout",
      "touchstart", "touchmove", "touchend", "input", "projection" }

\* C13 as claimed: the frame callback changes no field of the camera state.
C13_Original ==
    [][ last'.event = "frame" => UNCHANGED camera ]_vars

\* C13 as amended: the frame callback changes no field of the camera state but
\* aspect_ratio, which it sets to width / height when it finds the canvas at another
\* size than displayed, and which no input event changes; every change of zoom,
\* projection, rotation, centerLongitude, centerLatitude or view_height happens in
\* an input event.
C13_FrameChangesOnlyAspect ==
    [][ /\ last'.event = "frame" =>
               UNCHANGED <<zoom, projection, rotation, centerLongitude,
                           centerLatitude, view_height>>
        /\ aspect_ratio' # aspect_ratio =>
               /\ last'.event = "frame"
               /\ canvas' # canvas
               /\ aspect_ratio' = AspectOf(canvas'[1], canvas'[2])
        /\ <<zoom, projection, rotation, centerLongitude, centerLatitude,
              view_height>>' #
           <<zoom, projection, rotation, centerLongitude, centerLatitude,
             view_height>> =>
               last'.event \in InputEvents ]_vars

\* a frame has resized a canvas whose view had been zoomed
C13_Witness ==
    /\ last.event = "frame"
    /\ last.path = "resized"
    /\ aspect_ratio # <<1, 1>>
    /\ zoom # <<1, 1>>

----------------------------------------------------------------------------
(* C14 *)

\* C14: when no WebGL2 context was obtained, nothing runs after the failure is
\* reported: no event changes the camera state, onload uploads no texture (it does
\* not run into a failing gl call either) and no frame is requested or drawn.
C14_NothingRunsWithoutContext ==
    [][ gl = "null" =>
          /\ UNCHANGED <<camera, image, texture, rafPending>>
          /\ last'.event # "frame" ]_vars

----------------------------------------------------------------------------
(* C18 *)

\* the camera parameters a frame hands to the shaders, as they stand
CameraUniforms ==
    FrameUniforms(zoom, aspect_ratio, projection, rotation, view_height)

\* C18: every frame uploads zoom, aspect_ratio, projection, rotation and view_height
\* as they stand when it runs (aspect_ratio as resize has just left it), so what the
\* events before it did is in the frame and nothing of an earlier frame is; between
\* frames the uploaded values stay as that frame left them.
C18_FrameUsesCurrentCamera ==
    [][ IF last'.event = "frame"
        THEN uniforms' = CameraUniforms'
        ELSE uniforms' = uniforms ]_vars

\* a frame has drawn a view that was zoomed and then resized by that frame
C18_Witness ==
    /\ last.event = "frame"
    /\ last.path = "resized"
    /\ uniforms.zoom # <<1, 1>>
    /\ uniforms.aspect_ratio # <<1, 1>>
    /\ uniforms = CameraUniforms

----------------------------------------------------------------------------
(* C19 *)

\* the step handled a beginDrag: a mousedown, or a touchstart with one touch point
BeginDrag ==
    \/ last'.event = "mousedown"
    \/ last'.event = "touchstart" /\ last'.touches = 1

\* the events that end a session
EndDrag ==
    \/ last'.event \in { "mouseup", "mouseout", "touchend" }
    \/ last'.event \in { "touchstart", "touchmove" } /\ last'.touches # 1

\* C19: a beginDrag at (x,y) sets the anchor to (x,y) and starts a session without
\* changing the camera, whether or not a session was active; a continueDrag is
\* measured against the anchor as the beginDrag (or the continueDrag before it)
\* left it; and a session ends only with an end event: zoom, projection, height,
\* image-load and frame events leave the session and its anchor as they are.
C19_SessionFromBeginToEnd ==
    [][ /\ BeginDrag =>
               /\ is_dragging'
               /\ <<dragX', dragY'>> = <<last'.x, last'.y>>
               /\ UNCHANGED camera
        /\ Accepted =>
               /\ centerLongitude' =
                     centerLongitude
                     - (last'.x - dragX) * DragScale(canvas, aspect_ratio, zoom)
               /\ is_dragging'
        /\ (is_dragging /\ ~is_dragging') => EndDrag
        /\ (~BeginDrag /\ ~IsMove(last')) => UNCHANGED <<dragX, dragY>>
        /\ last'.event \in { "wheel", "projection", "input", "frame", "load" } =>
               UNCHANGED <<is_dragging, dragX, dragY>> ]_vars

\* a session that panned the view is still active after a zoom event
C19_Witness ==
    /\ last.event = "wheel"
    /\ is_dragging
    /\ centerLongitude # 0

----------------------------------------------------------------------------
(* C20 *)

\* C20: a scroll changes only zoom; projectionChanged, of the camera, only the
\* projection; the height input only view_height; a frame only the canvas size and
\* aspect_ratio; an accepted continueDrag only the anchor, centerLongitude,
\* centerLatitude and rotation; and nothing but an accepted continueDrag changes
\* centerLongitude, centerLatitude or rotation.
C20_EachOperationItsOwnPart ==
    [][ /\ last'.event = "wheel" =>
               UNCHANGED <<projection, rotation, centerLongitude, centerLatitude,
                           aspect_ratio, view_height, canvas, is_dragging,
                           dragX, dragY>>
        /\ last'.event = "projection" =>
               UNCHANGED <<zoom, rotation, centerLongitude, centerLatitude,
                           aspect_ratio, view_height, canvas, is_dragging,
                           dragX, dragY>>
        /\ last'.event = "input" =>
               UNCHANGED <<zoom, projection, rotation, centerLongitude,
                           centerLatitude, aspect_ratio, canvas, is_dragging,
                           dragX, dragY>>
        /\ last'.event = "frame" =>
               UNCHANGED <<zoom, projection, rotation, centerLongitude,
                           centerLatitude, view_height, is_dragging,
                           dragX, dragY>>
        /\ Accepted =>
               UNCHANGED <<zoom, projection, aspect_ratio, view_height, canvas,
                           is_dragging>>
        /\ <<centerLongitude, centerLatitude, rotation>>' #
           <<centerLongitude, centerLatitude, rotation>> => Accepted ]_vars

\* the height was edited in a view that had been panned and zoomed
C20_Witness ==
    /\ last.event = "input"
    /\ view_height # HeightOf(<<FALSE, 10000>>)
    /\ zoom # <<1, 1>>
    /\ centerLongitude # 0
    /\ rotation # Identity

----------------------------------------------------------------------------
(* C15 *)

SquaredNorm(v) == v[1] * v[1] + v[2] * v[2] + v[3] * v[3]

\* how far the square of an integer root can fall short of its argument
RootError == 2 * Fix

\* C15: under ORTHOGRAPHIC the fragment of a screen point (x,y) is discarded when
\* x^2 + y^2 > 1; otherwise it gets the point (x, y, z) with z >= 0 and
\* x^2 + y^2 + z^2 = 1 (up to the rounding of the root).
C15_OrthographicOnUnitSphere ==
    (fragment.shaded /\ uniforms.projection = ORTHOGRAPHIC) =>
        IF fragment.x * fragment.x + fragment.y * fragment.y > Fix * Fix
        THEN fragment.discarded
        ELSE /\ ~fragment.discarded
             /\ ~fragment.nan
             /\ fragment.xyz[1] = fragment.x
             /\ fragment.xyz[2] = fragment.y
             /\ fragment.xyz[3] >= 0
             /\ Abs(SquaredNorm(fragment.xyz) - Fix * Fix) <= RootError

\* a fragment off the axes of the visible disc got its point of the near hemisphere
C15_Witness ==
    /\ fragment.shaded
    /\ uniforms.projection = ORTHOGRAPHIC
    /\ ~fragment.discarded
    /\ fragment.x # 0
    /\ fragment.y # 0
    /\ fragment.xyz[3] > 0
    /\ fragment.xyz[3] < Fix

----------------------------------------------------------------------------
(* C16 *)

\* how far from 1 the squared length of a point found in 1/Fix steps may be: 2%
SphereTolerance == (Fix * Fix) \div 50

\* C16: under PERSPECTIVE with a positive view_height h, with
\* a = |screen point|^2 + h^2, b = -2 (h^2 + h), c = h^2 + 2 h: the fragment is
\* discarded exactly when b^2 - 4 a c < 0; otherwise t is the near root
\* (-b - sqrt(b^2 - 4 a c)) / (2 a), not greater than the far root, and the point
\* is (0, 0, h + 1) + t (x, y, -h), which lies on the unit sphere, on the side
\* that faces the observer.
C16_PerspectiveNearRoot ==
    ( /\ fragment.shaded
      /\ uniforms.projection = PERSPECTIVE
      /\ ~uniforms.view_height.nan
      /\ uniforms.view_height.v > 0 ) =>
        LET h == uniforms.view_height.v
            x == fragment.x
            y == fragment.y
            a == (x * x + y * y + h * h) \div Fix
            b == (-2 * (h * h + h * Fix)) \div Fix
            c == (h * h + 2 * h * Fix) \div Fix
            disc == b * b - 4 * a * c
            near == ((-b - Isqrt(disc)) * Fix) \div (2 * a)
            far == ((-b + Isqrt(disc)) * Fix) \div (2 * a)
        IN  IF disc < 0
            THEN fragment.discarded
            ELSE /\ ~fragment.discarded
                 /\ ~fragment.nan
                 /\ fragment.t = near
                 /\ near <= far
                 /\ fragment.xyz = << (near * x) \div Fix, (near * y) \div Fix,
                                      h + Fix - (near * h) \div Fix >>
                 /\ Abs(SquaredNorm(fragment.xyz) - Fix * Fix) <= SphereTolerance
                 /\ fragment.xyz[3] * (h + Fix) >= Fix * Fix

\* a ray off the axis has hit the sphere
C16_Witness ==
    /\ fragment.shaded
    /\ uniforms.projection = PERSPECTIVE
    /\ uniforms.view_height.v > 0
    /\ ~fragment.discarded
    /\ fragment.x # 0
    /\ fragment.y # 0
    /\ fragment.t > 0
    /\ fragment.xyz[3] < Fix

----------------------------------------------------------------------------
(* C17 *)

\* C17: the lod of every texture fetch is within [0, MaxMipLevel].
C17_LodClamped ==
    (fragment.shaded /\ ~fragment.discarded) =>
        /\ 0 <= fragment.lod
        /\ fragment.lod <= MaxMipLevel

----------------------------------------------------------------------------
(* C21 *)

\* C21: no frame is requested or drawn before onload has uploaded the image as
\* the texture; the first frame is requested by onload, every frame that runs
\* leaves exactly one frame requested, and no event takes a requested frame away:
\* never more than one frame callback is pending, and from the first request on
\* one always is, whatever events come in between.
C21_RenderLoop ==
    /\ [](rafPending \in { 0, 1 })
    /\ []((rafPending > 0 \/ last.event = "frame") =>
             (texture /\ image = "loaded"))
    /\ [][ /\ last'.event = "frame" =>
                 /\ texture
                 /\ rafPending = 1
                 /\ rafPending' = 1
           /\ rafPending = 1 => rafPending' = 1
           /\ (rafPending = 0 /\ rafPending' = 1) =>
                 /\ last'.event = "load"
                 /\ texture' ]_vars

\* a frame has run after input events were handled, and the next one is requested
C21_Witness ==
    /\ last.event = "frame"
    /\ steps = MaxEvents
    /\ zoom # <<1, 1>>
    /\ texture
    /\ rafPending = 1

====
